---- MODULE Spec2Model ----
(***************************************************************************)
(* Model of src/main.rs: the Discord event handler Handler::message and    *)
(* the three shared containers it works on (MentionCount, LastReport,      *)
(* RecordTracker).  Every inbound message runs one instance of             *)
(* Handler::message as its own task; the tasks interleave at the .await    *)
(* points of the handler.  One action of the model is the code between two *)
(* .await points that can suspend the task (a lock acquisition or an       *)
(* outbound send).  Instants and durations are whole seconds.              *)
(***************************************************************************)
EXTENDS Integers, Sequences, FiniteSets, TLC

\* ---------------------------------------------------------------- bounds
MaxEvents == 3      \* messages delivered in one run
MaxInFlight == 2    \* handler tasks running at the same time
MaxRankAuthors == 11  \* authors in the table of the ranking specification
MaxTextLen == 6     \* length of the texts of the matcher specification
MaxGapSeconds == 90061  \* longest gap of the formatting specification

\* ------------------------------------------------------ program constants
REPORT_INTERVAL == 60 * 60 * 24 * 5     \* Duration::from_secs(60*60*24*5)
TOP_N == 10                             \* .take(10)

\* Option<T>: None is the empty sequence, Some(x) the one-element sequence.
None == <<>>
Some(x) == <<x>>

Events == 1 .. MaxEvents

\* The bot's own identity (context.cache.current_user().id) and the users.
CurrentUser == "bot"
Users == {"alice", "bob"}
UserIds == Users \cup {CurrentUser}

\* Time that may pass between two readings of the monotonic clock behind
\* Instant::now(): none, a second, a whole report interval.
Elapsed == {0, 1, REPORT_INTERVAL}

\* msg.guild_id and the cache: guild g1 has a channel named "random",
\* guild g2 has none, guild g3 is not in the cache.
GuildIds == {None, Some("g1"), Some("g2"), Some("g3")}
guild_channels(g) ==
    CASE g = "g1" -> Some({"general", "random"})
      [] g = "g2" -> Some({"general"})
      [] OTHER -> None

\* Variant of FindRandom that takes any channel of a cached guild.
FindAnyChannel(guild_id) ==
    guild_id # None /\ guild_channels(guild_id[1]) # None

\* if let Some(guild_id) .. if let Some(channels) .. if let Some(channel)
FindRandom(guild_id) ==
    IF guild_id = None THEN FALSE
    ELSE LET channels == guild_channels(guild_id[1])
         IN  IF channels = None THEN FALSE ELSE "random" \in channels[1]

\* ------------------------------------------------------- keyword matcher
Upper == {"R", "U", "S", "T", "I"}
LowerOf == [c \in Upper |->
              CASE c = "R" -> "r" [] c = "U" -> "u"
                [] c = "S" -> "s" [] c = "T" -> "t" [] c = "I" -> "i"]
WordChars == {"r", "u", "s", "t", "y", "_", "i", "l", "o", "v", "e", "d"} \cup Upper

\* Variant of to_ascii_lowercase that leaves the text as it is.
keep_case(s) == s

to_ascii_lowercase(s) ==
    [i \in 1 .. Len(s) |-> IF s[i] \in Upper THEN LowerOf[s[i]] ELSE s[i]]

\* A word boundary lies between positions i and i+1 of s (0 and Len(s) are
\* the string edges) when exactly one side is a word character.
IsWordAt(s, i) == i >= 1 /\ i <= Len(s) /\ s[i] \in WordChars
WordBoundary(s, i) == IsWordAt(s, i) # IsWordAt(s, i + 1)

Keyword == <<"r", "u", "s", "t">>

\* Regex::new(r#"\brust\b"#).is_match(s)
is_match(s) ==
    \E i \in 1 .. Len(s) :
        /\ i + Len(Keyword) - 1 <= Len(s)
        /\ SubSeq(s, i, i + Len(Keyword) - 1) = Keyword
        /\ WordBoundary(s, i - 1)
        /\ WordBoundary(s, i + Len(Keyword) - 1)

\* Message texts delivered to the handler.
Texts == { <<"R", "u", "s", "t">>, <<"t", "r", "u", "s", "t">> }

\* Variant of Qualifies without the check of the author against the bot.
QualifiesAnyAuthor(a, t) == is_match(to_ascii_lowercase(t))

\* The early return of Handler::message, negated.
Qualifies(a, t) == ~(a = CurrentUser \/ ~is_match(to_ascii_lowercase(t)))

\* ------------------------------------------------------------ time
\* Variant of checked_duration_since that measures the distance in either
\* direction.
abs_duration_since(later, earlier) ==
    IF later >= earlier THEN Some(later - earlier) ELSE Some(earlier - later)

\* Instant::checked_duration_since
checked_duration_since(later, earlier) ==
    IF later >= earlier THEN Some(later - earlier) ELSE None

\* ------------------------------------------------------------ state
VARIABLES
    clock,            \* the last value Instant::now() returned
    counts,           \* MentionCount: HashMap<UserId, AtomicUsize>
    mention_readers,  \* tasks holding a read guard of the MentionCount lock
    last_report,      \* LastReport: Instant
    record,           \* RecordTracker: Record { last_mention, duration }
    outbox,           \* announcements handed to send_message
    pc,               \* position of each handler task
    author,           \* msg.author.id
    text,             \* msg.content
    now,              \* let now = Instant::now()
    mention_count,    \* let mention_count
    previous_report,  \* let previous_report = *last_report
    should_report,    \* let should_report
    guild_id,         \* msg.guild_id
    mentions,         \* the ranked entries pushed to message_builder
    duration          \* let duration

shared == <<counts, mention_readers, last_report, record, outbox>>
msg == <<author, text, guild_id>>
locals == <<now, mention_count, previous_report, should_report, mentions,
            duration>>
vars == <<clock, shared, pc, msg, locals>>

\* ------------------------------------------------------------ counter
\* Variant of FetchAdd that inserts a fresh counter on every call.
FetchAddInsert(table, id) ==
    [k \in DOMAIN table \cup {id} |-> IF k = id THEN 0 + 1 ELSE table[k]]

\* count.entry(id).or_insert_with(|| AtomicUsize::new(0)); fetch_add(1)
FetchAdd(table, id) ==
    IF id \in DOMAIN table
    THEN [table EXCEPT ![id] = @ + 1]
    ELSE [k \in DOMAIN table \cup {id} |->
            IF k = id THEN 0 + 1 ELSE table[k]]

\* Variant of Load that yields the value fetch_add returns (the old one).
LoadPrevious(table, id) == table[id] - 1

\* count.load(Ordering::SeqCst) right after the fetch_add
Load(table, id) == table[id]

\* ------------------------------------------------------------ report
\* Variant of ReportDue with a strict comparison.
ReportDueStrict(n, previous) ==
    LET d == checked_duration_since(n, previous)
    IN  d # None /\ d[1] > REPORT_INTERVAL

\* Some(duration) if duration >= Duration::from_secs(60*60*24*5)
ReportDue(n, previous) ==
    LET d == checked_duration_since(n, previous)
    IN  d # None /\ d[1] >= REPORT_INTERVAL

\* Variants of NextLastReport: one never advances, one always does.
NextLastReportNever(n, previous) == previous
NextLastReportAlways(n, previous) == n

\* *last_report = now in the matching arm, untouched otherwise
NextLastReport(n, previous) ==
    IF ReportDue(n, previous) THEN n ELSE previous

\* ------------------------------------------------------------ leaderboard
\* Stable insertion of entry x into a sequence sorted ascending by count.
RECURSIVE InsertByKey(_, _)
InsertByKey(s, x) ==
    IF s = <<>> THEN <<x>>
    ELSE IF s[Len(s)][2] <= x[2] THEN Append(s, x)
    ELSE Append(InsertByKey(SubSeq(s, 1, Len(s) - 1), x), s[Len(s)])

\* mentions.sort_by_key(|(_, count)| count.load(..)): stable, ascending
RECURSIVE sort_by_key(_)
sort_by_key(s) ==
    IF s = <<>> THEN <<>>
    ELSE InsertByKey(sort_by_key(SubSeq(s, 1, Len(s) - 1)), s[Len(s)])

rev(s) == [i \in 1 .. Len(s) |-> s[Len(s) + 1 - i]]
take(s, n) == SubSeq(s, 1, IF Len(s) < n THEN Len(s) ELSE n)

\* data.iter().collect(): the entries in one of the orders a HashMap may
\* iterate in.
IterOrders(table) ==
    LET n == Cardinality(DOMAIN table)
    IN  { [i \in 1 .. n |-> <<f[i], table[f[i]]>>] :
            f \in { g \in [1 .. n -> DOMAIN table] :
                      \A i, j \in 1 .. n : i # j => g[i] # g[j] } }

\* entries is the table in some iteration order: every key once, with its
\* count.
IsIterOrder(table, entries) ==
    /\ Len(entries) = Cardinality(DOMAIN table)
    /\ \A k \in DOMAIN table :
          \E i \in 1 .. Len(entries) : entries[i] = <<k, table[k]>>

\* Variant of Leaderboard without the .rev().
LeaderboardAscending(entries) == take(sort_by_key(entries), TOP_N)

\* sort, .iter().rev().take(10)
Leaderboard(entries) == take(rev(sort_by_key(entries)), TOP_N)

\* ------------------------------------------------------------ record
\* Variant of RecordBroken that also counts an equal gap as a record.
RecordBrokenOrEqual(d, previous) ==
    d # None /\ previous # None /\ d[1] >= previous[1]

\* (Some(current), Some(previous)) if current.gt(&previous)
RecordBroken(d, previous) ==
    d # None /\ previous # None /\ d[1] > previous[1]

\* Variant of FormattedTime that prints the total hours next to the days.
FormattedTimeTotalHours(seconds) ==
    LET minutes == seconds \div 60
        hours == minutes \div 60
        days == hours \div 24
    IN  IF days > 0 THEN <<days, "day(s) and", hours, "hour(s)">>
        ELSE IF hours > 0 THEN <<hours, "hour(s) and", minutes % 60, "minute(s)">>
        ELSE IF minutes > 0 THEN <<minutes, "minute(s) and", seconds % 60, "second(s)">>
        ELSE <<seconds, "seconds">>

\* Lines 164-177: formatted_time for current.as_secs(), as the numbers and
\* the words format! puts together.
FormattedTime(seconds) ==
    LET minutes == seconds \div 60
        hours == minutes \div 60
        days == hours \div 24
    IN  IF days > 0 THEN <<days, "day(s) and", hours % 24, "hour(s)">>
        ELSE IF hours > 0 THEN <<hours, "hour(s) and", minutes % 60, "minute(s)">>
        ELSE IF minutes > 0 THEN <<minutes, "minute(s) and", seconds % 60, "second(s)">>
        ELSE <<seconds, "seconds">>

\* ------------------------------------------------------------ init
Init ==
    /\ clock = 0
    /\ counts = <<>>
    /\ mention_readers = {}
    /\ last_report = 0
    /\ record = [last_mention |-> None, duration |-> None]
    /\ outbox = {}
    /\ pc = [e \in Events |-> "idle"]
    /\ author = [e \in Events |-> CurrentUser]
    /\ text = [e \in Events |-> <<>>]
    /\ guild_id = [e \in Events |-> None]
    /\ now = [e \in Events |-> 0]
    /\ mention_count = [e \in Events |-> 0]
    /\ previous_report = [e \in Events |-> 0]
    /\ should_report = [e \in Events |-> FALSE]
    /\ mentions = [e \in Events |-> <<>>]
    /\ duration = [e \in Events |-> None]

InFlight == {e \in Events : pc[e] \notin {"idle", "done"}}

\* ------------------------------------------------------------ actions
\* A message is delivered: the filter of lines 55-59 and Instant::now(),
\* which returns an instant d later than its last reading.
Message(e, a, t, d) ==
    /\ pc[e] = "idle"
    /\ \A f \in Events : f < e => pc[f] # "idle"
    /\ Cardinality(InFlight) < MaxInFlight
    /\ author' = [author EXCEPT ![e] = a]
    /\ text' = [text EXCEPT ![e] = t]
    /\ IF Qualifies(a, t)
       THEN /\ clock' = clock + d
            /\ now' = [now EXCEPT ![e] = clock']
            /\ pc' = [pc EXCEPT ![e] = "count"]
       ELSE /\ d = 0
            /\ clock' = clock
            /\ now' = now
            /\ pc' = [pc EXCEPT ![e] = "done"]
    /\ UNCHANGED <<shared, guild_id, mention_count,
                   previous_report, should_report, mentions, duration>>

\* mention_lock.write().await, fetch_add, load, guard dropped.
Count(e) ==
    /\ pc[e] = "count"
    /\ mention_readers = {}
    /\ counts' = FetchAdd(counts, author[e])
    /\ mention_count' = [mention_count EXCEPT ![e] = Load(counts', author[e])]
    /\ pc' = [pc EXCEPT ![e] = "report"]
    /\ UNCHANGED <<clock, mention_readers, last_report, record, outbox,
                   msg, now, previous_report, should_report, mentions,
                   duration>>

\* last_report.write().await, the check and the advance, guard dropped;
\* then the channel lookup of lines 102-105, which reads msg.guild_id.
Report(e, g) ==
    /\ pc[e] = "report"
    /\ previous_report' = [previous_report EXCEPT ![e] = last_report]
    /\ should_report' = [should_report EXCEPT ![e] = ReportDue(now[e], last_report)]
    /\ last_report' = NextLastReport(now[e], last_report)
    /\ IF should_report'[e]
       THEN /\ guild_id' = [guild_id EXCEPT ![e] = g]
            /\ pc' = [pc EXCEPT ![e] =
                        IF FindRandom(g) THEN "board" ELSE "read_record"]
       ELSE /\ g = None
            /\ guild_id' = guild_id
            /\ pc' = [pc EXCEPT ![e] = "read_record"]
    /\ UNCHANGED <<clock, counts, mention_readers, record, outbox,
                   author, text, now, mention_count, mentions, duration>>

\* mention_lock.read().await and the ranking of lines 109-120; the read
\* guard stays alive until the end of the block.
Board(e, entries) ==
    /\ pc[e] = "board"
    /\ IsIterOrder(counts, entries)
    /\ mention_readers' = mention_readers \cup {e}
    /\ mentions' = [mentions EXCEPT ![e] = Leaderboard(entries)]
    /\ pc' = [pc EXCEPT ![e] = "send_report"]
    /\ UNCHANGED <<clock, counts, last_report, record, outbox, msg,
                   now, mention_count, previous_report, should_report,
                   duration>>

\* Variant of SendReport that never drops the read guard.
SendReportKeepGuard(e, ok) ==
    /\ pc[e] = "send_report"
    /\ outbox' = outbox \cup {[kind |-> "report", event |-> e,
                               body |-> mentions[e], formatted |-> <<>>,
                               ok |-> ok]}
    /\ pc' = [pc EXCEPT ![e] = "read_record"]
    /\ UNCHANGED <<clock, counts, mention_readers, last_report, record, msg,
                   locals>>

\* channel.send_message(..).await returns Ok or Err; the block ends and the
\* read guard is dropped.
SendReport(e, ok) ==
    /\ pc[e] = "send_report"
    /\ outbox' = outbox \cup {[kind |-> "report", event |-> e,
                               body |-> mentions[e], formatted |-> <<>>,
                               ok |-> ok]}
    /\ mention_readers' = mention_readers \ {e}
    /\ pc' = [pc EXCEPT ![e] = "read_record"]
    /\ UNCHANGED <<clock, counts, last_report, record, msg, locals>>

\* record_lock.read().await.clone(), the gap and the match of line 162.
ReadRecord(e) ==
    /\ pc[e] = "read_record"
    /\ duration' = [duration EXCEPT ![e] =
                      IF record.last_mention # None
                      THEN checked_duration_since(now[e], record.last_mention[1])
                      ELSE None]
    /\ pc' = [pc EXCEPT ![e] =
                IF RecordBroken(duration'[e], record.duration)
                THEN "send_record" ELSE "write_mention"]
    /\ UNCHANGED <<clock, shared, msg, now, mention_count,
                   previous_report, should_report, mentions>>

\* msg.channel_id.send_message(..).await returns Ok or Err.
SendRecord(e, ok) ==
    /\ pc[e] = "send_record"
    /\ outbox' = outbox \cup {[kind |-> "record", event |-> e,
                               body |-> duration[e][1],
                               formatted |-> FormattedTime(duration[e][1]),
                               ok |-> ok]}
    /\ pc' = [pc EXCEPT ![e] = "write_duration"]
    /\ UNCHANGED <<clock, counts, mention_readers, last_report, record,
                   msg, locals>>

\* Lines 199-206: record_lock.write().await; record.duration = ...
WriteDuration(e) ==
    /\ pc[e] = "write_duration"
    /\ record' = [record EXCEPT !.duration =
                    IF duration[e] = None THEN Some(0) ELSE duration[e]]
    /\ pc' = [pc EXCEPT ![e] = "write_mention"]
    /\ UNCHANGED <<clock, counts, mention_readers, last_report, outbox,
                   msg, locals>>

\* Variant of WriteMention without the zero baseline of lines 214-216.
WriteMentionOnly(e) ==
    /\ pc[e] = "write_mention"
    /\ record' = [record EXCEPT !.last_mention = Some(now[e])]
    /\ pc' = [pc EXCEPT ![e] = "done"]
    /\ previous_report' = [previous_report EXCEPT ![e] = 0]
    /\ mentions' = [mentions EXCEPT ![e] = <<>>]
    /\ duration' = [duration EXCEPT ![e] = None]
    /\ guild_id' = [guild_id EXCEPT ![e] = None]
    /\ UNCHANGED <<clock, counts, mention_readers, last_report, outbox,
                   author, text, now, mention_count, should_report>>

\* Lines 211-217: record_lock.write().await; record.last_mention = Some(now).
\* The handler returns: the locals previous_report, mentions and duration
\* and the message's guild_id go out of scope.
WriteMention(e) ==
    /\ pc[e] = "write_mention"
    /\ record' = [last_mention |-> Some(now[e]),
                  duration |-> IF duration[e] = None THEN Some(0)
                               ELSE record.duration]
    /\ pc' = [pc EXCEPT ![e] = "done"]
    /\ previous_report' = [previous_report EXCEPT ![e] = 0]
    /\ mentions' = [mentions EXCEPT ![e] = <<>>]
    /\ duration' = [duration EXCEPT ![e] = None]
    /\ guild_id' = [guild_id EXCEPT ![e] = None]
    /\ UNCHANGED <<clock, counts, mention_readers, last_report, outbox,
                   author, text, now, mention_count, should_report>>

Next ==
    \/ \E e \in Events, a \in UserIds, t \in Texts, d \in Elapsed :
          Message(e, a, t, d)
    \/ \E e \in Events : Count(e)
    \/ \E e \in Events, g \in GuildIds : Report(e, g)
    \/ \E e \in Events : \E entries \in IterOrders(counts) : Board(e, entries)
    \/ \E e \in Events, ok \in BOOLEAN : SendReport(e, ok)
    \/ \E e \in Events : ReadRecord(e)
    \/ \E e \in Events, ok \in BOOLEAN : SendRecord(e, ok)
    \/ \E e \in Events : WriteDuration(e)
    \/ \E e \in Events : WriteMention(e)

Spec == Init /\ [][Next]_vars

\* A step of the handler task of event e.
HandlerStep(e) ==
    \/ Count(e)
    \/ \E g \in GuildIds : Report(e, g)
    \/ \E entries \in IterOrders(counts) : Board(e, entries)
    \/ \E ok \in BOOLEAN : SendReport(e, ok)
    \/ ReadRecord(e)
    \/ \E ok \in BOOLEAN : SendRecord(e, ok)
    \/ WriteDuration(e)
    \/ WriteMention(e)

\* The runtime keeps polling every task that can make progress, the locks
\* hand themselves to a waiting task, and every send returns.
Fairness == \A e \in Events : WF_vars(HandlerStep(e))

\* The messages of the fair specification: texts as before, one user, and
\* either no time or a whole report interval between two clock readings.
MessageLive(e, t, d) == Message(e, "alice", t, d)

NextLive ==
    \/ \E e \in Events, t \in Texts, d \in {0, REPORT_INTERVAL} :
          MessageLive(e, t, d)
    \/ \E e \in Events : Count(e)
    \/ \E e \in Events, g \in GuildIds : Report(e, g)
    \/ \E e \in Events : \E entries \in IterOrders(counts) : Board(e, entries)
    \/ \E e \in Events, ok \in BOOLEAN : SendReport(e, ok)
    \/ \E e \in Events : ReadRecord(e)
    \/ \E e \in Events, ok \in BOOLEAN : SendRecord(e, ok)
    \/ \E e \in Events : WriteDuration(e)
    \/ \E e \in Events : WriteMention(e)

FairSpec == Init /\ [][NextLive]_vars /\ Fairness

\* Serial delivery: a message is delivered only when no handler is running.
MessageSeq(e, a, t, d) == InFlight = {} /\ Message(e, a, t, d)

NextSeq ==
    \/ \E e \in Events, a \in UserIds, t \in Texts, d \in Elapsed :
          MessageSeq(e, a, t, d)
    \/ \E e \in Events : Count(e)
    \/ \E e \in Events, g \in GuildIds : Report(e, g)
    \/ \E e \in Events : \E entries \in IterOrders(counts) : Board(e, entries)
    \/ \E e \in Events, ok \in BOOLEAN : SendReport(e, ok)
    \/ \E e \in Events : ReadRecord(e)
    \/ \E e \in Events, ok \in BOOLEAN : SendRecord(e, ok)
    \/ \E e \in Events : WriteDuration(e)
    \/ \E e \in Events : WriteMention(e)

SpecSeq == Init /\ [][NextSeq]_vars

\* ------------------------------------------------- matcher specification
\* The filter of lines 51-59 on its own: handler 1 receives, from a user,
\* any text of up to MaxTextLen characters over MatchAlphabet, or one of the
\* sample texts.
MatchAlphabet == {"r", "u", "s", "t", "R", "!", "_"}

SampleTexts ==
    { <<"R", "U", "S", "T">>,
      <<"I", " ", "l", "o", "v", "e", " ", "r", "u", "s", "t", "!">>,
      <<"r", "u", "s", "t", "y">>,
      <<"t", "r", "u", "s", "t", "e", "d">> }

MatchTexts ==
    UNION { [1 .. n -> MatchAlphabet] : n \in 0 .. MaxTextLen } \cup SampleTexts

InitMatch ==
    /\ clock = 0
    /\ counts = <<>>
    /\ mention_readers = {}
    /\ last_report = 0
    /\ record = [last_mention |-> None, duration |-> None]
    /\ outbox = {}
    /\ pc = [e \in Events |-> "idle"]
    /\ author = [e \in Events |-> CurrentUser]
    /\ \E t \in MatchTexts : text = [e \in Events |-> IF e = 1 THEN t ELSE <<>>]
    /\ guild_id = [e \in Events |-> None]
    /\ now = [e \in Events |-> 0]
    /\ mention_count = [e \in Events |-> 0]
    /\ previous_report = [e \in Events |-> 0]
    /\ should_report = [e \in Events |-> FALSE]
    /\ mentions = [e \in Events |-> <<>>]
    /\ duration = [e \in Events |-> None]

NextMatch == \E a \in Users : Message(1, a, text[1], 0)

SpecMatch == InitMatch /\ [][NextMatch]_vars

\* ---------------------------------------------- formatting specification
\* The formatting of lines 164-177 on its own.  The initial state is the one
\* in which a first mention made at the start has been handled and handler 2,
\* for a mention made s seconds later, has found the record broken and is
\* about to send the announcement, for every s up to MaxGapSeconds.
InitFormat ==
    /\ clock \in 1 .. MaxGapSeconds
    /\ counts = [k \in {"alice"} |-> 2]
    /\ mention_readers = {}
    /\ last_report = 0
    /\ record = [last_mention |-> Some(0), duration |-> Some(0)]
    /\ outbox = {}
    /\ pc = [e \in Events |-> CASE e = 1 -> "done" [] e = 2 -> "send_record"
                                [] OTHER -> "idle"]
    /\ author = [e \in Events |-> IF e <= 2 THEN "alice" ELSE CurrentUser]
    /\ text = [e \in Events |-> IF e <= 2 THEN <<"R", "u", "s", "t">> ELSE <<>>]
    /\ guild_id = [e \in Events |-> None]
    /\ now = [e \in Events |-> IF e = 2 THEN clock ELSE 0]
    /\ mention_count = [e \in Events |-> IF e <= 2 THEN e ELSE 0]
    /\ previous_report = [e \in Events |-> 0]
    /\ should_report = [e \in Events |-> FALSE]
    /\ mentions = [e \in Events |-> <<>>]
    /\ duration = [e \in Events |-> IF e = 2 THEN Some(clock) ELSE None]

NextFormat == \E ok \in BOOLEAN : SendRecord(2, ok)

SpecFormat == InitFormat /\ [][NextFormat]_vars

\* ------------------------------------------------- ranking specification
\* The ranking of lines 109-120 on its own, for tables of up to
\* MaxRankAuthors authors (user ids 1..n) with counts drawn from RankCounts.
\* The initial state is the one in which handler 1, for a mention of user 1
\* made REPORT_INTERVAL after start, has found the report due and is about
\* to take the read lock; all earlier mentions were made at the start.
RankCounts == {1, 2}

\* Iteration orders tried: the keys in ascending order rotated by r, and the
\* keys in descending order.
RankOrders(table) ==
    LET n == Cardinality(DOMAIN table)
        key(r, i) == ((i - 1 + r) % n) + 1
    IN  { [i \in 1 .. n |-> <<key(r, i), table[key(r, i)]>>] : r \in 0 .. n - 1 }
        \cup { [i \in 1 .. n |-> <<n + 1 - i, table[n + 1 - i]>>] }

InitRank ==
    /\ clock = REPORT_INTERVAL
    /\ \E n \in 1 .. MaxRankAuthors : counts \in [1 .. n -> RankCounts]
    /\ mention_readers = {}
    /\ last_report = REPORT_INTERVAL
    /\ record = [last_mention |-> Some(0), duration |-> Some(0)]
    /\ outbox = {}
    /\ pc = [e \in Events |-> IF e = 1 THEN "board" ELSE "idle"]
    /\ author = [e \in Events |-> IF e = 1 THEN 1 ELSE CurrentUser]
    /\ text = [e \in Events |-> IF e = 1 THEN <<"R", "u", "s", "t">> ELSE <<>>]
    /\ guild_id = [e \in Events |-> IF e = 1 THEN Some("g1") ELSE None]
    /\ now = [e \in Events |-> IF e = 1 THEN REPORT_INTERVAL ELSE 0]
    /\ mention_count = [e \in Events |-> IF e = 1 THEN counts[1] ELSE 0]
    /\ previous_report = [e \in Events |-> 0]
    /\ should_report = [e \in Events |-> e = 1]
    /\ mentions = [e \in Events |-> <<>>]
    /\ duration = [e \in Events |-> None]

NextRank ==
    \/ \E entries \in RankOrders(counts) : Board(1, entries)
    \/ \E ok \in BOOLEAN : SendReport(1, ok)

SpecRank == InitRank /\ [][NextRank]_vars

\* ============================================================ properties
Counted(e) == pc[e] \notin {"idle", "count"} /\ Qualifies(author[e], text[e])
Qualifying(e) == pc[e] # "idle" /\ Qualifies(author[e], text[e])
Discarded(e) == pc[e] # "idle" /\ ~Qualifies(author[e], text[e])

\* A task is inside the Record Tracker's read/compute/write sequence once it
\* has cloned the record and until its last write to it.
InRecordSection(e) == pc[e] \in {"send_record", "write_duration", "write_mention"}

\* C1: the read-old-state / compute / write-new-state sequence of the Record
\* Tracker is one critical section: no two handlers are inside it at the
\* same time, so no two of them decide record status from the same state.
C1_RecordSectionExclusive ==
    \A e, f \in Events : (e # f /\ InRecordSection(e)) => ~InRecordSection(f)

\* C2: best_gap (record.duration), once set, never decreases.
C2_BestGapNeverDecreases ==
    [][record.duration # None =>
         (record'.duration # None /\ record'.duration[1] >= record.duration[1])]_vars

\* ---------------------------------------------------------------- C3
\* C3: for each author, the counts yielded to the events that have done
\* their counter step are exactly 1..N for N such events: the N-th increment
\* yields N, none is lost and no two events obtain the same count.
C3_CountsYielded ==
    \A a \in Users :
        LET S == {e \in Events : Counted(e) /\ author[e] = a}
        IN  {mention_count[e] : e \in S} = 1 .. Cardinality(S)

\* Two handlers for the same author are running and both have counted.
C3_Witness ==
    \E e, f \in Events :
        /\ e # f /\ author[e] = author[f]
        /\ Counted(e) /\ Counted(f)
        /\ pc[e] # "done" /\ pc[f] # "done"

\* ---------------------------------------------------------------- C4
\* C4: the instants of any two events that are told a report is due differ
\* by at least REPORT_INTERVAL.
C4_ReportsSpaced ==
    \A e, f \in Events :
        (e # f /\ should_report[e] /\ should_report[f]) =>
            \/ now[e] - now[f] >= REPORT_INTERVAL
            \/ now[f] - now[e] >= REPORT_INTERVAL

\* Two events have been told a report is due.
C4_Witness ==
    \E e, f \in Events : e # f /\ should_report[e] /\ should_report[f]

\* ---------------------------------------------------------------- C5
ReportStep(e) == pc[e] = "report" /\ pc'[e] # "report"

\* C5: a qualifying event evaluated with now - last_report >= REPORT_INTERVAL
\* is told a report is due and sets last_report to its now; one evaluated
\* with a smaller difference is not and leaves last_report alone; nothing
\* but the report check of a qualifying event changes last_report or
\* should_report.
C5_ReportThreshold ==
    [][/\ \A e \in Events : ReportStep(e) =>
             IF now[e] - last_report >= REPORT_INTERVAL
             THEN should_report'[e] /\ last_report' = now[e]
             ELSE ~should_report'[e] /\ last_report' = last_report
       /\ (last_report' # last_report \/ should_report' # should_report) =>
             \E e \in Events :
                 /\ ReportStep(e)
                 /\ author[e] # CurrentUser
                 /\ is_match(to_ascii_lowercase(text[e]))]_vars

\* An event was evaluated exactly REPORT_INTERVAL after the last report and
\* was told a report is due.
C5_Witness ==
    \E e \in Events :
        /\ pc[e] \in {"board", "send_report", "read_record"}
        /\ should_report[e]
        /\ now[e] - previous_report[e] = REPORT_INTERVAL
        /\ last_report = now[e]

\* ---------------------------------------------------------------- C6
\* C6: last_report never moves backward.
C6_LastReportMonotone == [][last_report' >= last_report]_vars

\* A handler whose now was captured before another handler's reached the
\* report check after it: its now is earlier than the stored last_report.
C6_Witness ==
    \E e \in Events :
        /\ pc[e] \in {"read_record", "send_record", "write_duration",
                      "write_mention"}
        /\ now[e] < previous_report[e]

\* ---------------------------------------------------------------- C7
SentReport(e) == \E m \in outbox : m.kind = "report" /\ m.event = e

\* C7 as stated: an event whose handling sends no leaderboard announcement
\* leaves last_report unchanged.
C7_Original ==
    \A e \in Events : (pc[e] = "done" /\ ~SentReport(e)) => ~should_report[e]

\* C7 amended: last_report is changed only by an event whose report check
\* found the report due, whether or not a leaderboard announcement is then
\* sent; every event that sends a leaderboard announcement has advanced it.
C7_AdvancedWhenDue ==
    /\ last_report # 0 =>
          \E e \in Events : should_report[e] /\ now[e] = last_report
    /\ \A e \in Events : SentReport(e) => should_report[e]

\* An event advanced last_report and finished without sending a leaderboard.
C7_Witness ==
    \E e \in Events :
        /\ pc[e] = "done" /\ should_report[e] /\ ~SentReport(e)
        /\ last_report = now[e]

\* ---------------------------------------------------------------- C8
CountOf(a) == IF a \in DOMAIN counts THEN counts[a] ELSE 0

\* C8: each author's stored count is the number of qualifying mentions by
\* that author whose counter step has completed (the bot has none); no count
\* is ever decreased or removed, and the counter step of one author leaves
\* every other author's count alone.
C8_CountsExact ==
    /\ [](\A a \in UserIds :
            LET n == Cardinality({e \in Events : Counted(e) /\ author[e] = a})
            IN  /\ CountOf(a) = n
                /\ a \in DOMAIN counts <=> n > 0)
    /\ [][/\ \A a \in DOMAIN counts :
                a \in DOMAIN counts' /\ counts'[a] >= counts[a]
          /\ \A e \in Events : (pc[e] = "count" /\ pc'[e] # "count") =>
                \A a \in UserIds \ {author[e]} : CountOf(a)' = CountOf(a)]_vars

\* Both users have counts, one of them more than one.
C8_Witness ==
    \E a, b \in DOMAIN counts : a # b /\ counts[a] >= 2 /\ counts[b] >= 1

\* ---------------------------------------------------------------- C9
\* C9: delivering a message whose text does not match the keyword, or whose
\* author is the bot, ends its handler at once and changes neither the
\* CounterTable, the RecordState nor last_report, and sends nothing.
C9_DiscardNoMutation ==
    [][\A e \in Events :
         (/\ pc[e] = "idle" /\ pc'[e] # "idle"
          /\ \/ author'[e] = CurrentUser
             \/ ~is_match(to_ascii_lowercase(text'[e]))) =>
         (pc'[e] = "done" /\ UNCHANGED <<counts, record, last_report, outbox>>)]_vars

\* A message of the bot that matches the keyword and a message of a user that
\* does not match have been discarded.
C9_Witness ==
    /\ \E e \in Events :
          /\ pc[e] = "done" /\ author[e] = CurrentUser
          /\ is_match(to_ascii_lowercase(text[e]))
    /\ \E e \in Events :
          /\ pc[e] = "done" /\ author[e] # CurrentUser
          /\ ~is_match(to_ascii_lowercase(text[e]))

\* ---------------------------------------------------------------- C10
\* C10: the no-prior-mention outcome (duration undefined: last_mention set to
\* now, best_gap set to zero, no announcement) is applied only while no
\* mention has been applied yet.
C10_NoPriorOnlyFirst ==
    [][\A e \in Events :
         (pc[e] = "write_mention" /\ pc'[e] = "done" /\ duration[e] = None) =>
             record.last_mention = None]_vars

\* ---------------------------------------------------------------- C11
\* The Record Tracker's rule applied to the finished qualifying events
\* 1..k in order: the record it prescribes, and whether event k breaks it.
RECURSIVE ExpectedRecord(_)
ExpectedRecord(k) ==
    IF k = 0 THEN [last_mention |-> None, duration |-> None]
    ELSE LET p == ExpectedRecord(k - 1)
         IN  IF ~(pc[k] = "done" /\ Qualifies(author[k], text[k])) THEN p
             ELSE IF p.last_mention = None
                  THEN [last_mention |-> Some(now[k]), duration |-> Some(0)]
             ELSE IF now[k] - p.last_mention[1] > p.duration[1]
                  THEN [last_mention |-> Some(now[k]),
                        duration |-> Some(now[k] - p.last_mention[1])]
             ELSE [last_mention |-> Some(now[k]), duration |-> p.duration]

ExpectedBroken(k) ==
    LET p == ExpectedRecord(k - 1)
    IN  /\ pc[k] = "done" /\ Qualifies(author[k], text[k])
        /\ p.last_mention # None
        /\ now[k] - p.last_mention[1] > p.duration[1]

RecordAnnouncements(e) == {m \in outbox : m.kind = "record" /\ m.event = e}

\* C11: with mentions handled one after another, whenever no handler is
\* running the record is the one the rule prescribes (best_gap replaced only
\* by a strictly greater gap, last_mention the latest now), and an event has
\* exactly one record announcement, carrying its gap, if it broke the record
\* and none otherwise.
C11_SequentialRecordRule ==
    InFlight = {} =>
        /\ record = ExpectedRecord(MaxEvents)
        /\ \A e \in Events :
              IF ExpectedBroken(e)
              THEN /\ Cardinality(RecordAnnouncements(e)) = 1
                   /\ \A m \in RecordAnnouncements(e) :
                         m.body = now[e] - ExpectedRecord(e - 1).last_mention[1]
              ELSE RecordAnnouncements(e) = {}

\* Three mentions with gaps g1 = REPORT_INTERVAL and g2 = 1 have been
\* handled: the second broke the zero baseline, the third left best_gap at g1.
C11_Witness ==
    /\ \A e \in 1 .. 3 : pc[e] = "done" /\ Qualifies(author[e], text[e])
    /\ now[2] - now[1] = REPORT_INTERVAL
    /\ now[3] - now[2] = 1
    /\ record = [last_mention |-> Some(now[3]), duration |-> Some(REPORT_INTERVAL)]
    /\ RecordAnnouncements(2) # {} /\ RecordAnnouncements(3) = {}

\* ---------------------------------------------------------------- C12
\* C12: the leaderboard payload is the CounterTable of the instant at which
\* the event advanced last_report: between that advance and the event's
\* snapshot of the table (while it waits for the read lock) no increment is
\* performed, so no later increment of another event gets into the payload.
C12_PayloadAtAdvance ==
    [][(\E e \in Events : pc[e] = "board") => counts' = counts]_vars

\* ---------------------------------------------------------------- C13
RECURSIVE SumListed(_)
SumListed(s) == IF s = <<>> THEN 0 ELSE s[1][2] + SumListed(Tail(s))

RECURSIVE SumTable(_, _)
SumTable(table, keys) ==
    IF keys = {} THEN 0
    ELSE LET k == CHOOSE x \in keys : TRUE
         IN  table[k] + SumTable(table, keys \ {k})

Min(a, b) == IF a < b THEN a ELSE b

\* What holds of a leaderboard m of the table whatever the order of ties.
RankedFrom(m, table) ==
    /\ Len(m) = Min(10, Cardinality(DOMAIN table))
    /\ \A i \in 1 .. Len(m) :
          m[i][1] \in DOMAIN table /\ m[i][2] = table[m[i][1]]
    /\ \A i, j \in 1 .. Len(m) : i # j => m[i][1] # m[j][1]
    /\ \A k \in DOMAIN table :
          (\A i \in 1 .. Len(m) : m[i][1] # k) =>
              \A i \in 1 .. Len(m) : table[k] <= m[i][2]
    /\ SumListed(m) <= SumTable(table, DOMAIN table)

\* C13 as stated: the leaderboard lists min(10, authors) entries, each author
\* once, from the highest counts, every entry's count greater than the count
\* of every entry after it.
C13_Original ==
    \A e \in Events : pc[e] = "send_report" =>
        /\ RankedFrom(mentions[e], counts)
        /\ \A i, j \in 1 .. Len(mentions[e]) :
              i < j => mentions[e][i][2] > mentions[e][j][2]

\* C13 amended: as stated, but every entry's count is greater than or equal
\* to the count of every entry after it (authors with equal counts appear in
\* either order).
C13_RankedDescending ==
    \A e \in Events : pc[e] = "send_report" =>
        /\ RankedFrom(mentions[e], counts)
        /\ \A i, j \in 1 .. Len(mentions[e]) :
              i < j => mentions[e][i][2] >= mentions[e][j][2]

\* Eleven authors: ten are listed, two listed ones tie and the omitted one
\* has a count below the highest.
C13_Witness ==
    /\ pc[1] = "send_report"
    /\ Cardinality(DOMAIN counts) = 11
    /\ Len(mentions[1]) = 10
    /\ mentions[1][1][2] = 2 /\ mentions[1][2][2] = 2 /\ mentions[1][10][2] = 1
    /\ \E k \in DOMAIN counts :
          counts[k] = 1 /\ \A i \in 1 .. 10 : mentions[1][i][1] # k

\* ---------------------------------------------------------------- C14
SendStep(e) == pc[e] \in {"send_report", "send_record"} /\ pc'[e] # pc[e]
Announced(e) == \E m \in outbox : m.event = e

\* The parts of C14 about the result of a send: the send changes no core
\* state, the handler continues at the same place whether the send returned
\* Ok or Err, and no event sends an announcement of one kind twice.
DeliveryResultIgnored ==
    \A e \in Events :
        /\ SendStep(e) =>
              /\ UNCHANGED <<counts, record, last_report>>
              /\ pc'[e] = IF pc[e] = "send_report" THEN "read_record"
                          ELSE "write_duration"
        /\ Cardinality({m \in outbox' : m.event = e /\ m.kind = "report"}) <= 1
        /\ Cardinality({m \in outbox' : m.event = e /\ m.kind = "record"}) <= 1

\* The part of C14 about waiting: the state transition of an event does not
\* wait for a send to return, that is, an event that has handed an
\* announcement to send_message writes no core state afterwards.
TransitionBeforeDelivery ==
    \A e \in Events :
        (Announced(e) /\ pc'[e] # pc[e]) =>
            UNCHANGED <<counts, record, last_report>>

\* C14: outbound delivery never changes core state: the state reached is the
\* same whether a send succeeds or fails, a failure is not retried, and the
\* state transition neither depends on nor waits for the delivery result.
C14_DeliveryIndependent ==
    [][DeliveryResultIgnored /\ TransitionBeforeDelivery]_vars

\* ---------------------------------------------------------------- C15
\* C15: no handler holds read access to the CounterTable while it sends the
\* leaderboard announcement, and no handler that is about to increment a
\* count finds the table read-locked.
C15_NoReadGuardDuringSend ==
    /\ \A e \in Events : pc[e] = "send_report" => e \notin mention_readers
    /\ \A e \in Events : pc[e] = "count" => mention_readers = {}

\* ---------------------------------------------------------------- C16
\* The event found its report due and went on without sending a leaderboard.
Dropped(e) ==
    /\ should_report[e] /\ ~SentReport(e)
    /\ pc[e] \in {"read_record", "send_record", "write_duration",
                  "write_mention", "done"}

\* C16: an event whose report is due while its message has no guild, or its
\* guild is not cached or has no channel named "random", goes straight on to
\* the record tracker: nothing is sent or queued for it, then or later, and
\* an event evaluated after it inside the same interval is not told a report
\* is due.
C16_DroppedNotRetried ==
    /\ [][\A e \in Events :
            /\ (/\ ReportStep(e) /\ should_report'[e]
                /\ \/ guild_id'[e] = None
                   \/ guild_channels(guild_id'[e][1]) = None
                   \/ "random" \notin guild_channels(guild_id'[e][1])[1])
               => (pc'[e] = "read_record" /\ outbox' = outbox)
            /\ Dropped(e) => Dropped(e)']_vars
    /\ [](\A e, f \in Events :
            (/\ Dropped(e) /\ f # e
             /\ pc[f] \notin {"idle", "count", "report"}
             /\ now[f] >= now[e] /\ now[f] - now[e] < REPORT_INTERVAL)
            => (~should_report[f] /\ ~SentReport(f)))

\* An event dropped its leaderboard and a later event inside the same
\* interval has been handled completely, in a guild that has the channel.
C16_Witness ==
    \E e, f \in Events :
        /\ Dropped(e) /\ pc[e] = "done"
        /\ f # e /\ pc[f] = "done" /\ Qualifies(author[f], text[f])
        /\ now[f] - now[e] = 1
        /\ ~should_report[f] /\ ~SentReport(f)

\* ---------------------------------------------------------------- C17
\* The letters of the keyword in either case, and the non-word characters
\* of the texts.
KeywordForms == << {"r", "R"}, {"u", "U"}, {"s", "S"}, {"t", "T"} >>
Delimiters == {" ", "!"}

\* "rust" occurs in t, in any case, between delimiters or string edges.
WholeWordRust(t) ==
    \E i \in 1 .. Len(t) :
        /\ i + 3 <= Len(t)
        /\ \A k \in 1 .. 4 : t[i + k - 1] \in KeywordForms[k]
        /\ i = 1 \/ t[i - 1] \in Delimiters
        /\ i + 3 = Len(t) \/ t[i + 4] \in Delimiters

\* C17: a user's message passes the keyword filter exactly when "rust"
\* occurs in its text, case-insensitively, as a whole word.
C17_MatchIffWholeWord ==
    \A e \in Events : pc[e] # "idle" =>
        (pc[e] = "count" <=> WholeWordRust(text[e]))

\* "I love rust!" has been delivered and has passed the filter.
C17_Witness ==
    /\ pc[1] = "count"
    /\ text[1] = <<"I", " ", "l", "o", "v", "e", " ", "r", "u", "s", "t", "!">>

\* ---------------------------------------------------------------- C18
\* The format the claim prescribes for a gap of s whole seconds.
CoarsestUnits(s) ==
    IF s >= 86400
    THEN <<s \div 86400, "day(s) and", (s \div 3600) % 24, "hour(s)">>
    ELSE IF s >= 3600
    THEN <<s \div 3600, "hour(s) and", (s \div 60) % 60, "minute(s)">>
    ELSE IF s >= 60
    THEN <<s \div 60, "minute(s) and", s % 60, "second(s)">>
    ELSE <<s, "seconds">>

\* C18: every record announcement formats its gap in the coarsest
\* applicable unit: days and hours, hours and minutes, minutes and seconds,
\* or seconds.
C18_CoarsestUnit ==
    \A m \in outbox : m.kind = "record" => m.formatted = CoarsestUnits(m.body)

\* A gap of 1 day, 1 hour, 1 minute and 1 second has been announced.
C18_Witness ==
    \E m \in outbox :
        /\ m.kind = "record" /\ m.body = 90061
        /\ m.formatted = <<1, "day(s) and", 1, "hour(s)">>

\* ---------------------------------------------------------------- C19
\* C19: record.duration is present exactly when record.last_mention is.
C19_BothOrNeither ==
    (record.duration = None) <=> (record.last_mention = None)

\* The record has been written while another handler, which read it empty,
\* is still about to write.
C19_Witness ==
    /\ record.last_mention # None /\ record.duration # None
    /\ \E e \in Events : pc[e] = "write_mention" /\ duration[e] = None

\* ---------------------------------------------------------------- C20
\* C20: handlers never deadlock.  A handler that holds the read guard of
\* the CounterTable is waiting for its send, not for a lock (the other two
\* guards are taken and dropped within one step); while handlers are running
\* one of them can step; and every handler of a qualifying event eventually
\* returns, having incremented its author's count once (the count it was
\* given is positive and each count is the number of counted events) and
\* with last_mention written.
C20_NoDeadlockAllComplete ==
    /\ [](\A e \in mention_readers : pc[e] = "send_report")
    /\ [](InFlight # {} => \E e \in InFlight : ENABLED HandlerStep(e))
    /\ [](\A a \in Users :
            CountOf(a) = Cardinality({e \in Events : Counted(e) /\ author[e] = a}))
    /\ \A e \in Events :
          (pc[e] = "count") ~>
              (pc[e] = "done" /\ mention_count[e] >= 1 /\ record.last_mention # None)

\* One handler holds the read guard while it sends the leaderboard and
\* another waits to increment a count.
C20_Witness ==
    \E e, f \in Events :
        e \in mention_readers /\ pc[e] = "send_report" /\ pc[f] = "count"

====
